---------------------------- MODULE Spec2Model ----------------------------
(***************************************************************************)
(* A model of the qupido pipeline kernel (src/src/pipeline.rs,             *)
(* src/src/source.rs, src/src/node.rs, src/src/container.rs,               *)
(* src/qupido/src/container.rs).                                           *)
(*                                                                         *)
(* Spec: a node slice is assembled with Node::new and Node::clone, handed  *)
(* to Pipeline::from_nodes, and the resulting pipeline is run against a    *)
(* seed container, one node of the execution order per step.               *)
(* CompositionSpec: pipelines are built, added, namespaced and run whole.  *)
(* StoreSpec: calls are made on a container, the container is remapped     *)
(* for a node, a port is mapped with a function.                           *)
(*                                                                         *)
(* Names (Source::Id strings, container keys) are sequences of character   *)
(* codes.  A HashMap port (NodeSources::Map) is the sequence of its        *)
(* (node-local, global) entries in the iteration order of that HashMap     *)
(* instance: the order is arbitrary, so every order is a possible node.    *)
(* Payloads (Arc<T>) are never inspected by the pipeline, only cloned and  *)
(* moved, so every payload is modelled by a token naming its origin:       *)
(* <<0, k>> is the payload the seed holds under k, <<id, k>> the payload   *)
(* the function of node id returned under k.                               *)
(***************************************************************************)
EXTENDS Integers, Sequences, FiniteSets, TLC

(***************************************************************************)
(* Bounds of the model.                                                    *)
(***************************************************************************)
\* longest node slice handed to from_nodes
MaxNodes == 3
\* most keys a node function returns beside its declared outputs
MaxExtra == 1
\* the most calls made on a container
MaxOps == 3

(***************************************************************************)
(* Names.                                                                  *)
(***************************************************************************)
NameA == <<97>>
NameB == <<98>>
NameC == <<99>>
NameP == <<112>>
NameQ == <<113>>

\* the keys a seed container may hold
SeedKeys == {NameA, NameB, NameC}
\* the keys a node function may return beside its declared outputs
ExtraKeys == {NameA, NameP}

(***************************************************************************)
(* Small helpers on sequences.                                             *)
(***************************************************************************)
Range(s) == {s[i] : i \in 1..Len(s)}

RECURSIVE Flatten(_)
Flatten(ss) == IF ss = <<>> THEN <<>> ELSE Head(ss) \o Flatten(Tail(ss))

Reverse(s) == [i \in 1..Len(s) |-> s[Len(s) + 1 - i]]

\* the position of the first element of s equal to x (0 when there is none)
Position(s, x) ==
    IF \E i \in 1..Len(s) : s[i] = x
    THEN CHOOSE i \in 1..Len(s) : s[i] = x /\ \A j \in 1..(i - 1) : s[j] # x
    ELSE 0

(***************************************************************************)
(* NodeSources (src/src/source.rs).                                        *)
(***************************************************************************)
List(l) == [kind |-> "List", l |-> l, m |-> <<>>]
Map(m) == [kind |-> "Map", l |-> <<>>, m |-> m]

\* NodeSources::inputs: the list itself, or the values of the map
SourcesInputs(s) ==
    IF s.kind = "List" THEN s.l ELSE [i \in 1..Len(s.m) |-> s.m[i][2]]

\* NodeSources::outputs: the list itself, or the values of the map
SourcesOutputs(s) ==
    IF s.kind = "List" THEN s.l ELSE [i \in 1..Len(s.m) |-> s.m[i][2]]

\* the names under which a node function sees / returns the entries of a port
SourcesLocals(s) ==
    IF s.kind = "List" THEN s.l ELSE [i \in 1..Len(s.m) |-> s.m[i][1]]

(***************************************************************************)
(* Node (src/src/node.rs).  Node::new mints a fresh id; the derived Clone  *)
(* keeps the id.  tags are metadata and not modelled.  func stands for the *)
(* closure handed to Node::new: it is named by the id minted with it and   *)
(* was written against the node-local names of the ports it was declared   *)
(* with (reads, writes); clones and namespaced copies share it.  namespace *)
(* is an Option: <<>> is None, <<s>> is Some(s).                           *)
(***************************************************************************)
NodeNew(id, inputs, outputs) ==
    [id |-> id, inputs |-> inputs, outputs |-> outputs,
     func |-> [id |-> id,
               reads |-> Range(SourcesLocals(inputs)),
               writes |-> Range(SourcesLocals(outputs))],
     namespace |-> <<>>]

\* the port declarations nodes are built from.  The inputs read a (by
\* its own name) and b (under the local name c); the outputs write a and b
\* by List, the same name twice in one List, and a and c by a Map whose
\* local name b is also a seed key, in both iteration orders of the Map.
InPorts ==
    { List(<<>>), List(<<NameA>>), Map(<<<<NameC, NameB>>>>) }

OutPorts ==
    { List(<<>>), List(<<NameA>>), List(<<NameB>>), List(<<NameB, NameB>>),
      Map(<<<<NameB, NameA>>, <<NameQ, NameC>>>>),
      Map(<<<<NameQ, NameC>>, <<NameB, NameA>>>>) }

(***************************************************************************)
(* QupidoError and QupidoResult (src/src/lib.rs).                          *)
(***************************************************************************)
DataNotFound(k) == [variant |-> "DataNotFound", name |-> k]
DuplicateData(k) == [variant |-> "DuplicateData", name |-> k]
InvalidPipeline == [variant |-> "InvalidPipeline", name |-> <<>>]
NodeNotFound == [variant |-> "NodeNotFound", name |-> <<>>]
NoError == [variant |-> "", name |-> <<>>]

\* a Result (or a value not set yet): tag is "Ok", "Err" or "None"
Ok(v) == [tag |-> "Ok", err |-> NoError, val |-> v]
Err(e) == [tag |-> "Err", err |-> e, val |-> <<>>]
None == [tag |-> "None", err |-> NoError, val |-> <<>>]

(***************************************************************************)
(* Pipeline::from_nodes (src/src/pipeline.rs).                             *)
(***************************************************************************)
\* graph_nodes: node id -> graph index.  The graph gets one vertex per
\* element of the slice; collecting into the HashMap keeps, for an id that
\* occurs twice, the last index.
GraphNodes(nodes) ==
    [id \in {nodes[i].id : i \in 1..Len(nodes)} |->
        CHOOSE i \in 1..Len(nodes) :
            /\ nodes[i].id = id
            /\ \A j \in (i + 1)..Len(nodes) : nodes[j].id # id]

\* the (output name, node id) pairs in the order the first loop inserts them
OutputInserts(nodes) ==
    Flatten([i \in 1..Len(nodes) |->
        LET o == SourcesOutputs(nodes[i].outputs)
        IN  [j \in 1..Len(o) |-> <<o[j], nodes[i].id>>]])

\* FirstDuplicate with the check made between different nodes only
FirstDuplicateAcrossNodes(ins) ==
    IF \E j \in 1..Len(ins) : \E i \in 1..(j - 1) :
           ins[i][1] = ins[j][1] /\ ins[i][2] # ins[j][2]
    THEN CHOOSE j \in 1..Len(ins) :
            /\ \E i \in 1..(j - 1) :
                   ins[i][1] = ins[j][1] /\ ins[i][2] # ins[j][2]
            /\ \A k \in 1..(j - 1) :
                   ~ \E i \in 1..(k - 1) :
                         ins[i][1] = ins[k][1] /\ ins[i][2] # ins[k][2]
    ELSE 0

\* FirstDuplicate that finds no name already present
FirstDuplicateNone(ins) == 0

\* the first insert that finds its name already present (0 when none does)
FirstDuplicate(ins) ==
    IF \E j \in 1..Len(ins) : \E i \in 1..(j - 1) : ins[i][1] = ins[j][1]
    THEN CHOOSE j \in 1..Len(ins) :
            /\ \E i \in 1..(j - 1) : ins[i][1] = ins[j][1]
            /\ \A k \in 1..(j - 1) :
                   ~ \E i \in 1..(k - 1) : ins[i][1] = ins[k][1]
    ELSE 0

\* outputs: output name -> id of the node that declares it
OutputsMap(ins) ==
    [o \in {ins[j][1] : j \in 1..Len(ins)} |->
        ins[CHOOSE j \in 1..Len(ins) : ins[j][1] = o /\
            \A k \in (j + 1)..Len(ins) : ins[k][1] # o][2]]

\* GraphEdges that wires a node only to the producers before it in the slice
GraphEdgesToEarlier(nodes, outputs) ==
    LET gn == GraphNodes(nodes)
    IN  Flatten([i \in 1..Len(nodes) |->
            LET inp == SourcesInputs(nodes[i].inputs)
                hit == SelectSeq(inp, LAMBDA x :
                          /\ x \in DOMAIN outputs
                          /\ gn[outputs[x]] < i)
            IN  [j \in 1..Len(hit) |->
                    [src |-> gn[outputs[hit[j]]], dst |-> gn[nodes[i].id],
                     weight |-> hit[j]]]])

\* the edges in the order add_edge is called: for each node of the slice,
\* for each of its inputs that some node produces
GraphEdges(nodes, outputs) ==
    LET gn == GraphNodes(nodes)
    IN  Flatten([i \in 1..Len(nodes) |->
            LET inp == SourcesInputs(nodes[i].inputs)
                hit == SelectSeq(inp, LAMBDA x : x \in DOMAIN outputs)
            IN  [j \in 1..Len(hit) |->
                    [src |-> gn[outputs[hit[j]]], dst |-> gn[nodes[i].id],
                     weight |-> hit[j]]]])

\* Graph::neighbors: the targets of the outgoing edges, newest edge first
Neighbors(edges, nx) ==
    LET out == SelectSeq(edges, LAMBDA e : e.src = nx)
    IN  Reverse([j \in 1..Len(out) |-> out[j].dst])

\* the inner loop of toposort's first pass: a depth-first search with an
\* explicit stack that pushes a vertex's undiscovered successors at its
\* first visit and finishes it at its second
RECURSIVE DfsFinish(_, _, _, _, _)
DfsFinish(edges, stack, discovered, finished, finish_stack) ==
    IF stack = <<>>
    THEN [cycle |-> FALSE, discovered |-> discovered, finished |-> finished,
          finish_stack |-> finish_stack]
    ELSE LET nx == stack[Len(stack)]
             nb == Neighbors(edges, nx)
         IN  IF nx \notin discovered
             THEN IF nx \in Range(nb)
                  THEN [cycle |-> TRUE, discovered |-> discovered,
                        finished |-> finished, finish_stack |-> finish_stack]
                  ELSE DfsFinish(edges,
                          stack \o SelectSeq(nb,
                              LAMBDA s : s \notin discovered \cup {nx}),
                          discovered \cup {nx}, finished, finish_stack)
             ELSE DfsFinish(edges, SubSeq(stack, 1, Len(stack) - 1),
                      discovered,
                      finished \cup {nx},
                      IF nx \in finished THEN finish_stack
                      ELSE Append(finish_stack, nx))

\* the outer loop of the first pass: the vertices in reverse index order
RECURSIVE DfsAll(_, _, _)
DfsAll(edges, i, acc) ==
    IF acc.cycle \/ i = 0 THEN acc
    ELSE IF i \in acc.discovered THEN DfsAll(edges, i - 1, acc)
    ELSE DfsAll(edges, i - 1,
            DfsFinish(edges, <<i>>, acc.discovered, acc.finished,
                      acc.finish_stack))

\* Toposort without its second pass: only a self loop is reported
ToposortFirstPassOnly(n, edges) ==
    LET first == DfsAll(edges, n,
                    [cycle |-> FALSE, discovered |-> {}, finished |-> {},
                     finish_stack |-> <<>>])
    IN  IF first.cycle THEN Err(InvalidPipeline)
        ELSE Ok(Reverse(first.finish_stack))

\* petgraph::algo::toposort: Err on a cycle, else the reversed finish order.
\* The second pass walks the order and reports a cycle when a vertex has a
\* predecessor that is not before it.
Toposort(n, edges) ==
    LET first == DfsAll(edges, n,
                    [cycle |-> FALSE, discovered |-> {}, finished |-> {},
                     finish_stack |-> <<>>])
        order == Reverse(first.finish_stack)
    IN  IF first.cycle THEN Err(InvalidPipeline)
        ELSE IF \E k \in 1..Len(edges) :
                   /\ edges[k].src # edges[k].dst
                   /\ Position(order, edges[k].src)
                        > Position(order, edges[k].dst)
        THEN Err(InvalidPipeline)
        ELSE Ok(order)

\* from_nodes that sorts the graph before it looks for a duplicated output
FromNodesSortFirst(nodes) ==
    LET ins == OutputInserts(nodes)
        dup == FirstDuplicate(ins)
        edges == GraphEdges(nodes, OutputsMap(ins))
        sorted == Toposort(Len(nodes), edges)
    IN  IF sorted.tag = "Err" THEN sorted
        ELSE IF dup # 0 THEN Err(DuplicateData(ins[dup][1]))
        ELSE Ok([nodes |-> [k \in 1..Len(sorted.val) |->
                               nodes[sorted.val[k]]],
                 graph |-> [weights |-> [i \in 1..Len(nodes) |->
                                           nodes[i].id],
                            edges |-> edges]])

from_nodes(nodes) ==
    LET ins == OutputInserts(nodes)
        dup == FirstDuplicate(ins)
    IN  IF dup # 0 THEN Err(DuplicateData(ins[dup][1]))
        ELSE LET edges == GraphEdges(nodes, OutputsMap(ins))
                 sorted == Toposort(Len(nodes), edges)
             IN  IF sorted.tag = "Err" THEN sorted
                 ELSE Ok([nodes |-> [k \in 1..Len(sorted.val) |->
                                        nodes[sorted.val[k]]],
                          graph |-> [weights |-> [i \in 1..Len(nodes) |->
                                                    nodes[i].id],
                                     edges |-> edges]])

(***************************************************************************)
(* The surface queries of a pipeline (src/src/pipeline.rs).                *)
(***************************************************************************)
\* the derived Ord of Source: the byte-wise lexicographic order of the ids
RECURSIVE SourceLe(_, _)
SourceLe(x, y) ==
    IF x = <<>> THEN TRUE
    ELSE IF y = <<>> THEN FALSE
    ELSE IF Head(x) # Head(y) THEN Head(x) < Head(y)
    ELSE SourceLe(Tail(x), Tail(y))

\* insert x into the sorted r after the elements that are not greater
RECURSIVE SortedInsert(_, _)
SortedInsert(r, x) ==
    IF r = <<>> THEN <<x>>
    ELSE IF SourceLe(Head(r), x) THEN <<Head(r)>> \o SortedInsert(Tail(r), x)
    ELSE <<x>> \o r

\* Vec::sort: a stable sort
RECURSIVE Sort(_)
Sort(r) ==
    IF r = <<>> THEN <<>>
    ELSE SortedInsert(Sort(SubSeq(r, 1, Len(r) - 1)), r[Len(r)])

\* the graph index of a node of the pipeline: the first vertex whose weight
\* is the node's id
GraphIndex(p, n) == Position(p.graph.weights, n.id)

\* Pipeline::inputs: the inputs of each node that no incoming edge carries
PipelineInputs(p) ==
    Sort(Flatten([k \in 1..Len(p.nodes) |->
        LET idx == GraphIndex(p, p.nodes[k])
            incoming == {e \in Range(p.graph.edges) : e.dst = idx}
        IN  SelectSeq(SourcesInputs(p.nodes[k].inputs),
                LAMBDA input : ~ \E e \in incoming : e.weight = input)]))

\* PipelineOutputs that looks at the incoming edges of the node
PipelineOutputsIncoming(p) ==
    Sort(Flatten([k \in 1..Len(p.nodes) |->
        LET idx == GraphIndex(p, p.nodes[k])
            incoming == {e \in Range(p.graph.edges) : e.dst = idx}
        IN  SelectSeq(SourcesOutputs(p.nodes[k].outputs),
                LAMBDA output : ~ \E e \in incoming : e.weight = output)]))

\* Pipeline::outputs: the outputs of each node that no outgoing edge carries
PipelineOutputs(p) ==
    Sort(Flatten([k \in 1..Len(p.nodes) |->
        LET idx == GraphIndex(p, p.nodes[k])
            outgoing == {e \in Range(p.graph.edges) : e.src = idx}
        IN  SelectSeq(SourcesOutputs(p.nodes[k].outputs),
                LAMBDA output : ~ \E e \in outgoing : e.weight = output)]))

\* r with each element kept at its first occurrence only
RECURSIVE Dedup(_)
Dedup(r) ==
    IF r = <<>> THEN <<>>
    ELSE LET front == Dedup(SubSeq(r, 1, Len(r) - 1))
         IN  IF r[Len(r)] \in Range(front) THEN front
             ELSE Append(front, r[Len(r)])

\* Pipeline::all_outputs: every output of every node, once
PipelineAllOutputs(p) ==
    Sort(Dedup(Flatten([k \in 1..Len(p.nodes) |->
        SourcesOutputs(p.nodes[k].outputs)])))

(***************************************************************************)
(* Container (src/qupido/src/container.rs): data is a map from keys to     *)
(* payloads.                                                               *)
(***************************************************************************)
ContainerNew == <<>>

\* HashMap::insert on data: sets the key, overwriting
DataInsert(data, k, v) ==
    [x \in (DOMAIN data) \cup {k} |-> IF x = k THEN v ELSE data[x]]

\* HashMap::remove on data
DataRemove(data, k) == [x \in (DOMAIN data) \ {k} |-> data[x]]

\* ContainerClone that hands out the place of the original
ContainerCloneShared(h, src, dst) == [heap |-> h, at |-> src]

\* Container::clone: a new map with the same keys and the same payloads.
\* h holds the containers of a run by place; the clone of the container at
\* src is put at dst and dst is returned as the place of the clone.
ContainerClone(h, src, dst) ==
    [heap |-> [h EXCEPT ![dst] = h[src]], at |-> dst]

(***************************************************************************)
(* Pipeline::run (src/src/pipeline.rs), one iteration of its loop.         *)
(***************************************************************************)
\* the remap of a Map input port: each entry, in the iteration order of the
\* map, reads its global name from c and inserts it into c under the
\* node-local name
RECURSIVE Remap(_, _)
Remap(c, m) ==
    IF m = <<>> THEN Ok(c)
    ELSE LET node_id == Head(m)[1]
             global_id == Head(m)[2]
         IN  IF global_id \notin DOMAIN c THEN Err(DataNotFound(global_id))
             ELSE Remap(DataInsert(c, node_id, c[global_id]), Tail(m))

\* container_input: the clone of the running state the node function gets
ContainerInput(state, n) ==
    IF n.inputs.kind = "List" THEN Ok(state) ELSE Remap(state, n.inputs.m)

\* FoldOutputs that looks the produced value up under the global name
RECURSIVE FoldOutputsByGlobal(_, _, _)
FoldOutputsByGlobal(state, r, entries) ==
    IF entries = <<>> THEN Ok(state)
    ELSE LET global_id == Head(entries)[2]
         IN  IF global_id \notin DOMAIN r THEN Err(DataNotFound(global_id))
             ELSE FoldOutputsByGlobal(
                      DataInsert(state, global_id, r[global_id]),
                      DataRemove(r, global_id), Tail(entries))

\* FoldOutputs that writes the produced value under the node-local name
RECURSIVE FoldOutputsUnderLocal(_, _, _)
FoldOutputsUnderLocal(state, r, entries) ==
    IF entries = <<>> THEN Ok(state)
    ELSE LET node_id == Head(entries)[1]
         IN  IF node_id \notin DOMAIN r THEN Err(DataNotFound(node_id))
             ELSE FoldOutputsUnderLocal(
                      DataInsert(state, node_id, r[node_id]),
                      DataRemove(r, node_id), Tail(entries))

\* FoldOutputs that skips a declared output the function did not return
RECURSIVE FoldOutputsSkipMissing(_, _, _)
FoldOutputsSkipMissing(state, r, entries) ==
    IF entries = <<>> THEN Ok(state)
    ELSE LET node_id == Head(entries)[1]
             global_id == Head(entries)[2]
         IN  IF node_id \notin DOMAIN r
             THEN FoldOutputsSkipMissing(state, r, Tail(entries))
             ELSE FoldOutputsSkipMissing(
                      DataInsert(state, global_id, r[node_id]),
                      DataRemove(r, node_id), Tail(entries))

\* FoldOutputs that also keeps what is left of the returned container
RECURSIVE FoldOutputsKeepExtra(_, _, _)
FoldOutputsKeepExtra(state, r, entries) ==
    IF entries = <<>>
    THEN Ok([k \in (DOMAIN state) \cup (DOMAIN r) |->
                IF k \in DOMAIN r THEN r[k] ELSE state[k]])
    ELSE LET node_id == Head(entries)[1]
             global_id == Head(entries)[2]
         IN  IF node_id \notin DOMAIN r THEN Err(DataNotFound(node_id))
             ELSE FoldOutputsKeepExtra(
                      DataInsert(state, global_id, r[node_id]),
                      DataRemove(r, node_id), Tail(entries))

\* the fold of the declared outputs: each entry (node-local name, global
\* name), in order, is removed from res and inserted into the running state
RECURSIVE FoldOutputs(_, _, _)
FoldOutputs(state, r, entries) ==
    IF entries = <<>> THEN Ok(state)
    ELSE LET node_id == Head(entries)[1]
             global_id == Head(entries)[2]
         IN  IF node_id \notin DOMAIN r THEN Err(DataNotFound(node_id))
             ELSE FoldOutputs(DataInsert(state, global_id, r[node_id]),
                              DataRemove(r, node_id), Tail(entries))

\* the (node-local, global) entries of an output port in the order the
\* match on n.outputs walks them
OutputEntries(s) ==
    IF s.kind = "List" THEN [i \in 1..Len(s.l) |-> <<s.l[i], s.l[i]>>]
    ELSE s.m

\* AfterCall that goes on with the next node when the function fails
AfterCallIgnoreError(state, n, r) ==
    IF r.tag = "Err" THEN Ok(state)
    ELSE FoldOutputs(state, r.val, OutputEntries(n.outputs))

\* what follows the call in an iteration: an error of the function returns
\* from run, a container is folded into the running state
AfterCall(state, n, r) ==
    IF r.tag = "Err" THEN r
    ELSE FoldOutputs(state, r.val, OutputEntries(n.outputs))

\* the errors a node function may return
FuncErrors == {DataNotFound(NameP), NodeNotFound}

\* what a node function may return: an error, or a container that holds
\* any of its declared outputs and at most MaxExtra other keys; the payload
\* under k is the token <<id, k>>
FuncStores(n) ==
    LET declared == Range(SourcesLocals(n.outputs))
    IN  { [k \in D \cup X |-> <<n.id, k>>] :
            D \in SUBSET declared,
            X \in {Y \in SUBSET (ExtraKeys \ declared) :
                     Cardinality(Y) <= MaxExtra} }

FuncResults(n) ==
    {Err(e) : e \in FuncErrors} \cup {Ok(r) : r \in FuncStores(n)}

(***************************************************************************)
(* Composition (src/src/pipeline.rs, src/src/source.rs): NodeSources::map, *)
(* Pipeline::add, Pipeline::with_namespace.                                *)
(***************************************************************************)
\* the character '.' of format!("{}.{}", ..)
Dot == 46

NameSum == <<115, 117, 109>>
NameSq == <<115, 113>>
NameCSum == <<99, 46, 115, 117, 109>>
NameD == <<100>>

\* the prefixes handed to with_namespace: "c", "c.c" and "d"
Prefixes == {NameC, NameC \o <<Dot>> \o NameC, NameD}

\* format!("{}.{}", namespace, s)
Format(namespace, s) == namespace \o <<Dot>> \o s

\* the iteration orders a HashMap holding the entries h may have
Orderings(h) == {o \in [1..Cardinality(h) -> h] : Range(o) = h}

\* the closure with_namespace hands to NodeSources::map, as a function on
\* the names ids
mapping(namespace, ids) == [node_id \in ids |-> Format(namespace, node_id)]

\* MapEntries with the arguments of the insert swapped
MapEntriesSwapped(s, map) ==
    IF s.kind = "List"
    THEN {<<map[s.l[i]], s.l[i]>> : i \in 1..Len(s.l)}
    ELSE {<<map[s.m[i][2]], s.m[i][1]>> : i \in 1..Len(s.m)}

\* MapEntries that leaves the names of a List as they are
MapEntriesListUnmapped(s, map) ==
    IF s.kind = "List"
    THEN {<<s.l[i], s.l[i]>> : i \in 1..Len(s.l)}
    ELSE {<<s.m[i][1], map[s.m[i][2]]>> : i \in 1..Len(s.m)}

\* the entries of the HashMap NodeSources::map builds with the function
\* map: one per node-local name, with the mapped global name
MapEntries(s, map) ==
    IF s.kind = "List"
    THEN {<<s.l[i], map[s.l[i]]>> : i \in 1..Len(s.l)}
    ELSE {<<s.m[i][1], map[s.m[i][2]]>> : i \in 1..Len(s.m)}

\* NodeSources::map: a Map over the same node-local names; the new HashMap
\* may iterate in any order, so this is the set of the possible results
SourcesMap(s, map) ==
    {Map(o) : o \in Orderings(MapEntries(s, map))}

\* NewNamespace with the prefix put after the previous namespace
NewNamespaceAppended(namespace, previous) ==
    IF previous = <<>> THEN <<namespace>>
    ELSE <<Format(previous[1], namespace)>>

\* the namespace of a namespaced node: the prefix, put before the previous
\* namespace when there is one
NewNamespace(namespace, previous) ==
    IF previous = <<>> THEN <<namespace>>
    ELSE <<Format(namespace, previous[1])>>

\* the nodes with_namespace may build from n, with the fresh id given
NamespacedNode(n, namespace, id) ==
    { [id |-> id, inputs |-> new_inputs, outputs |-> new_outputs,
       func |-> n.func,
       namespace |-> NewNamespace(namespace, n.namespace)] :
        new_inputs \in SourcesMap(n.inputs,
                          mapping(namespace, Range(SourcesInputs(n.inputs)))),
        new_outputs \in SourcesMap(n.outputs,
                          mapping(namespace,
                                  Range(SourcesOutputs(n.outputs)))) }

\* the slices new_nodes with_namespace may collect from ns: fresh ids
\* first_id, first_id + 1, .. in the order of ns
RECURSIVE NewNodes(_, _, _)
NewNodes(ns, namespace, first_id) ==
    IF ns = <<>> THEN {<<>>}
    ELSE LET front == SubSeq(ns, 1, Len(ns) - 1)
         IN  { Append(f, n) :
                 f \in NewNodes(front, namespace, first_id),
                 n \in NamespacedNode(ns[Len(ns)], namespace,
                                      first_id + Len(ns) - 1) }

\* Pipeline::with_namespace: the possible results
with_namespace(self, namespace, first_id) ==
    {from_nodes(new_nodes) :
        new_nodes \in NewNodes(self.nodes, namespace, first_id)}

\* add that forgets to extend the slice by the nodes of other
AddWithoutOther(self, other) == from_nodes(self.nodes)

\* Pipeline::add
add(self, other) == from_nodes(self.nodes \o other.nodes)

(***************************************************************************)
(* Whole runs with the functions the nodes were declared for.              *)
(***************************************************************************)
\* the least name of a non-empty set of names in the order of Source
Least(names) == CHOOSE x \in names : \A y \in names : SourceLe(x, y)

\* the call (n.func.f)(&ctx) of a closure that gets every node-local input
\* name it was written for from ctx.inputs (Container::get fails with
\* DataNotFound on a missing one) and returns a container with every
\* node-local output name it was written for; the payload under k is the
\* token <<func.id, k, the payloads read>>
FuncCall(func, inputs) ==
    IF func.reads \ DOMAIN inputs # {}
    THEN Err(DataNotFound(Least(func.reads \ DOMAIN inputs)))
    ELSE Ok([k \in func.writes |->
                <<func.id, k, [l \in func.reads |-> inputs[l]]>>])

\* the loop of run over the nodes left, from the running state given
RECURSIVE RunLoop(_, _)
RunLoop(ns, state) ==
    IF ns = <<>> THEN Ok(state)
    ELSE LET n == Head(ns)
             container_input == ContainerInput(state, n)
         IN  IF container_input.tag = "Err" THEN container_input
             ELSE LET after == AfterCall(state, n,
                                  FuncCall(n.func, container_input.val))
                  IN  IF after.tag = "Err" THEN after
                      ELSE RunLoop(Tail(ns), after.val)

\* Pipeline::run as one step
run(self, container) == RunLoop(self.nodes, container)

(***************************************************************************)
(* The Container API (src/src/container.rs, src/qupido/src/container.rs).  *)
(* The type-erased container stores a value with its type and get asks for *)
(* a type; the generic Container<T> is the case of one type only.  The     *)
(* TypeIds DataTypeMismatch carries are not modelled.                      *)
(***************************************************************************)
DataTypeMismatch(k) == [variant |-> "DataTypeMismatch", name |-> k]

\* ContainerUpsert that keeps the value a present key has
ContainerUpsertKeepOld(data, key, value) ==
    IF key \in DOMAIN data THEN data ELSE DataInsert(data, key, value)

\* Container::upsert
ContainerUpsert(data, key, value) == DataInsert(data, key, value)

\* Container::insert: the result and the data after the call
ContainerInsert(data, key, value) ==
    IF key \in DOMAIN data
    THEN [ret |-> Err(DuplicateData(key)), data |-> data]
    ELSE [ret |-> Ok(<<>>), data |-> ContainerUpsert(data, key, value)]

\* Container::get::<requested>
ContainerGet(data, key, requested) ==
    IF key \notin DOMAIN data THEN Err(DataNotFound(key))
    ELSE IF data[key].type = requested THEN Ok(data[key])
    ELSE Err(DataTypeMismatch(key))

(***************************************************************************)
(* The state.                                                              *)
(***************************************************************************)
VARIABLES
    nodes,                \* the node slice being assembled
    next_id,              \* the next fresh node id (Uuid::new_v4)
    pipeline,             \* what from_nodes returned (None before the call)
    pc,                   \* "nodes", "pipeline", "run" or "done"; in a
                          \* composition "nodes", "first", "built",
                          \* "reordered", "namespaced", "renamespaced",
                          \* "both_namespaced", "added", "run_namespaced"
                          \* or "run_reordered"
    seed,                 \* the keys of the seed container when run was called
    heap,                 \* the containers of the run: the caller's seed
                          \* ("container") and the running state ("state")
    container_run_state,  \* the place of the running state in heap
    pos,                  \* the index in pipeline.nodes of the next node
    ctx,                  \* the Context.inputs of the last function call
    res,                  \* what the last function call returned
    invoked,              \* the indices in pipeline.nodes of the function
                          \* calls made, in order
    result,               \* what run returned (None before it returns)
    split,                \* how many nodes of the slice the first pipeline
                          \* of a composition was built from
    first,                \* the first pipeline of a composition
    second,               \* the second pipeline of a composition, how it
                          \* was made and with which prefix
    ns1,                  \* first.with_namespace(ns1.pfx)
    ns2,                  \* ns1.with_namespace(ns2.pfx)
    sum,                  \* what add returned
    ran,                  \* the keys of the seed of the whole runs made and
                          \* what they returned, in order
    at,                   \* where the user of a container is: "store",
                          \* "mapped" or "remapped"
    store,                \* the data of a container its user fills
    log,                  \* the calls made on store, with what they returned
    port,                 \* a port, the function it was mapped with and
                          \* what NodeSources::map returned
    view                  \* the node store was remapped for and the
                          \* container_input it got

vars == <<nodes, next_id, pipeline, pc, seed, heap, container_run_state, pos,
          ctx, res, invoked, result, split, first, second, ns1, ns2, sum,
          ran, at, store, log, port, view>>

run_vars == <<seed, heap, container_run_state, pos, ctx, res, invoked, result>>

comp_vars == <<split, first, second, ns1, ns2, sum, ran>>

store_vars == <<at, store, log, port, view>>

Init ==
    /\ nodes = <<>>
    /\ next_id = 1
    /\ pipeline = None
    /\ pc = "nodes"
    /\ seed = {}
    /\ heap = [container |-> ContainerNew, state |-> ContainerNew]
    /\ container_run_state = "container"
    /\ pos = 0
    /\ ctx = None
    /\ res = None
    /\ invoked = <<>>
    /\ result = None
    /\ split = 0
    /\ first = None
    /\ second = [how |-> "", pfx |-> <<>>, val |-> None]
    /\ ns1 = [pfx |-> <<>>, val |-> None]
    /\ ns2 = [pfx |-> <<>>, val |-> None]
    /\ sum = None
    /\ ran = [seed |-> {}, outs |-> <<>>]
    /\ at = "store"
    /\ store = ContainerNew
    /\ log = <<>>
    /\ port = None
    /\ view = None

\* Node::new(inputs, outputs, func) appended to the slice
NewNode ==
    /\ pc = "nodes"
    /\ Len(nodes) < MaxNodes
    /\ \E inputs \in InPorts, outputs \in OutPorts :
          nodes' = Append(nodes, NodeNew(next_id, inputs, outputs))
    /\ next_id' = next_id + 1
    /\ UNCHANGED <<pipeline, pc>>
    /\ UNCHANGED run_vars
    /\ UNCHANGED comp_vars
    /\ UNCHANGED store_vars

\* a clone of a node of the slice appended to the slice
CloneNode ==
    /\ pc = "nodes"
    /\ Len(nodes) < MaxNodes
    /\ \E i \in 1..Len(nodes) : nodes' = Append(nodes, nodes[i])
    /\ UNCHANGED <<next_id, pipeline, pc>>
    /\ UNCHANGED run_vars
    /\ UNCHANGED comp_vars
    /\ UNCHANGED store_vars

\* Pipeline::from_nodes(&nodes)
FromNodes ==
    /\ pc = "nodes"
    /\ pipeline' = from_nodes(nodes)
    /\ pc' = "pipeline"
    /\ UNCHANGED <<nodes, next_id>>
    /\ UNCHANGED run_vars
    /\ UNCHANGED comp_vars
    /\ UNCHANGED store_vars

\* pipeline.run(&container) up to the loop: the running state is a clone
\* of the seed
RunStart ==
    /\ pc = "pipeline"
    /\ pipeline.tag = "Ok"
    /\ \E K \in SUBSET SeedKeys :
          LET cl == ContainerClone(
                       [heap EXCEPT !.container = [k \in K |-> <<0, k>>]],
                       "container", "state")
          IN  /\ seed' = K
              /\ heap' = cl.heap
              /\ container_run_state' = cl.at
    /\ pos' = 1
    /\ pc' = "run"
    /\ UNCHANGED <<nodes, next_id, pipeline, ctx, res, invoked, result>>
    /\ UNCHANGED comp_vars
    /\ UNCHANGED store_vars

\* one iteration of the loop of run: remap, call the function, fold the
\* declared outputs into the running state; any error returns from run
RunStep ==
    /\ pc = "run"
    /\ pos <= Len(pipeline.val.nodes)
    /\ LET n == pipeline.val.nodes[pos]
           container_input == ContainerInput(heap[container_run_state], n)
       IN  IF container_input.tag = "Err"
           THEN /\ result' = container_input
                /\ pc' = "done"
                /\ UNCHANGED <<heap, pos, ctx, res, invoked>>
           ELSE /\ ctx' = container_input
                /\ invoked' = Append(invoked, pos)
                /\ \E r \in FuncResults(n) :
                      LET after == AfterCall(heap[container_run_state], n, r)
                      IN  /\ res' = r
                          /\ IF after.tag = "Err"
                             THEN /\ result' = after
                                  /\ pc' = "done"
                                  /\ UNCHANGED <<heap, pos>>
                             ELSE /\ heap' = [heap EXCEPT
                                         ![container_run_state] = after.val]
                                  /\ pos' = pos + 1
                                  /\ UNCHANGED <<result, pc>>
    /\ UNCHANGED <<nodes, next_id, pipeline, seed, container_run_state>>
    /\ UNCHANGED comp_vars
    /\ UNCHANGED store_vars

\* the loop is over: run returns the running state
RunReturn ==
    /\ pc = "run"
    /\ pos > Len(pipeline.val.nodes)
    /\ result' = Ok(heap[container_run_state])
    /\ pc' = "done"
    /\ UNCHANGED <<nodes, next_id, pipeline, seed, heap, container_run_state,
                   pos, ctx, res, invoked>>
    /\ UNCHANGED comp_vars
    /\ UNCHANGED store_vars

Next == NewNode \/ CloneNode \/ FromNodes \/ RunStart \/ RunStep \/ RunReturn

Spec == Init /\ [][Next]_vars

(***************************************************************************)
(* Composition: a slice is assembled and a first pipeline is built from    *)
(* its front.  Then a second one is built from the rest of the slice or    *)
(* from the front in another order, and the first is added to it or both   *)
(* are run; or the first is namespaced, and then namespaced again, or      *)
(* added to another namespaced copy of itself, or run beside its copy.     *)
(***************************************************************************)
\* the (inputs, outputs) the nodes of a composition are declared with
Shapes ==
    { <<List(<<NameA, NameB>>), List(<<NameSum>>)>>,
      <<List(<<NameSum>>), List(<<NameSq>>)>>,
      <<Map(<<<<NameP, NameSum>>>>), List(<<>>)>>,
      <<List(<<NameA>>), Map(<<<<NameQ, NameCSum>>>>)>>,
      <<List(<<NameSq>>), List(<<NameB>>)>> }

\* the key sets of the seeds of the whole runs
RunSeeds == {{}, {NameSum}, {NameA, NameB}, {NameA, NameB, NameSum}}

\* the container that holds the keys K, each with the payload of the seed
SeedOf(K) == [k \in K |-> <<0, k>>]

\* the container with every key of c under "pfx.key"
Prefixed(c, pfx) ==
    [x \in {Format(pfx, k) : k \in DOMAIN c} |->
        c[CHOOSE k \in DOMAIN c : Format(pfx, k) = x]]

\* the rearrangements of the slice s
Rearranged(s) ==
    {[i \in 1..Len(s) |-> s[f[i]]] : f \in Orderings(1..Len(s))}

\* Node::new(inputs, outputs, func) appended to the slice
NewShapedNode ==
    /\ pc = "nodes"
    /\ Len(nodes) < MaxNodes
    /\ \E s \in Shapes :
          nodes' = Append(nodes, NodeNew(next_id, s[1], s[2]))
    /\ next_id' = next_id + 1
    /\ UNCHANGED <<pipeline, pc>>
    /\ UNCHANGED run_vars
    /\ UNCHANGED comp_vars
    /\ UNCHANGED store_vars

\* Pipeline::from_nodes(&nodes[..i])
BuildFirst ==
    /\ pc = "nodes"
    /\ \E i \in 0..Len(nodes) :
          /\ split' = i
          /\ first' = from_nodes(SubSeq(nodes, 1, i))
    /\ pc' = "first"
    /\ UNCHANGED <<nodes, next_id, pipeline, second, ns1, ns2, sum, ran>>
    /\ UNCHANGED run_vars
    /\ UNCHANGED store_vars

\* Pipeline::from_nodes(&nodes[split..])
BuildRest ==
    /\ pc = "first"
    /\ second' = [how |-> "rest", pfx |-> <<>>,
                  val |-> from_nodes(SubSeq(nodes, split + 1, Len(nodes)))]
    /\ pc' = "built"
    /\ UNCHANGED <<nodes, next_id, pipeline, split, first, ns1, ns2, sum, ran>>
    /\ UNCHANGED run_vars
    /\ UNCHANGED store_vars

\* Pipeline::from_nodes of the nodes of the first pipeline in another order
BuildReordered ==
    /\ pc = "first"
    /\ \E s \in Rearranged(SubSeq(nodes, 1, split)) :
          second' = [how |-> "reordered", pfx |-> <<>>, val |-> from_nodes(s)]
    /\ pc' = "reordered"
    /\ UNCHANGED <<nodes, next_id, pipeline, split, first, ns1, ns2, sum, ran>>
    /\ UNCHANGED run_vars
    /\ UNCHANGED store_vars

\* first.add(&second)
AddSecond ==
    /\ pc \in {"built", "reordered"}
    /\ first.tag = "Ok"
    /\ second.val.tag = "Ok"
    /\ sum' = add(first.val, second.val.val)
    /\ pc' = "added"
    /\ UNCHANGED <<nodes, next_id, pipeline, split, first, second, ns1, ns2,
                   ran>>
    /\ UNCHANGED run_vars
    /\ UNCHANGED store_vars

\* first.with_namespace(namespace)
Namespace ==
    /\ pc = "first"
    /\ first.tag = "Ok"
    /\ \E namespace \in Prefixes :
          \E r \in with_namespace(first.val, namespace, next_id) :
              ns1' = [pfx |-> namespace, val |-> r]
    /\ next_id' = next_id + Len(first.val.nodes)
    /\ pc' = "namespaced"
    /\ UNCHANGED <<nodes, pipeline, split, first, second, ns2, sum, ran>>
    /\ UNCHANGED run_vars
    /\ UNCHANGED store_vars

\* ns1.with_namespace(namespace)
NamespaceAgain ==
    /\ pc = "namespaced"
    /\ ns1.val.tag = "Ok"
    /\ \E namespace \in Prefixes :
          \E r \in with_namespace(ns1.val.val, namespace, next_id) :
              ns2' = [pfx |-> namespace, val |-> r]
    /\ next_id' = next_id + Len(ns1.val.val.nodes)
    /\ pc' = "renamespaced"
    /\ UNCHANGED <<nodes, pipeline, split, first, second, ns1, sum, ran>>
    /\ UNCHANGED run_vars
    /\ UNCHANGED store_vars

\* first.with_namespace(namespace) once more, as the second pipeline
NamespaceSecond ==
    /\ pc = "namespaced"
    /\ \E namespace \in Prefixes :
          \E r \in with_namespace(first.val, namespace, next_id) :
              second' = [how |-> "with_namespace", pfx |-> namespace,
                         val |-> r]
    /\ next_id' = next_id + Len(first.val.nodes)
    /\ pc' = "both_namespaced"
    /\ UNCHANGED <<nodes, pipeline, split, first, ns1, ns2, sum, ran>>
    /\ UNCHANGED run_vars
    /\ UNCHANGED store_vars

\* ns1.add(&second) of the two namespaced copies
AddNamespaced ==
    /\ pc = "both_namespaced"
    /\ ns1.val.tag = "Ok"
    /\ second.val.tag = "Ok"
    /\ sum' = add(ns1.val.val, second.val.val)
    /\ pc' = "added"
    /\ UNCHANGED <<nodes, next_id, pipeline, split, first, second, ns1, ns2,
                   ran>>
    /\ UNCHANGED run_vars
    /\ UNCHANGED store_vars

\* the (pipeline, container) of the whole runs made from a seed with the
\* keys K: the first pipeline and then its namespaced copy against the seed
\* with prefixed keys and against the seed itself, or the two orderings
Targets(K) ==
    IF pc \in {"namespaced", "run_namespaced"}
    THEN << <<first, SeedOf(K)>>,
            <<ns1.val, Prefixed(SeedOf(K), ns1.pfx)>>,
            <<ns1.val, SeedOf(K)>> >>
    ELSE << <<first, SeedOf(K)>>, <<second.val, SeedOf(K)>> >>

\* first.run(&container) against a new seed container
RunFirst ==
    /\ \/ pc = "namespaced" /\ ns1.val.tag = "Ok" /\ pc' = "run_namespaced"
       \/ /\ pc = "reordered"
          /\ first.tag = "Ok"
          /\ second.val.tag = "Ok"
          /\ pc' = "run_reordered"
    /\ \E K \in RunSeeds :
          ran' = [seed |-> K,
                  outs |-> <<run(Targets(K)[1][1].val, Targets(K)[1][2])>>]
    /\ UNCHANGED <<nodes, next_id, pipeline, split, first, second, ns1, ns2,
                   sum>>
    /\ UNCHANGED run_vars
    /\ UNCHANGED store_vars

\* pipeline.run(&container) of the next pipeline to run
RunNext ==
    /\ pc \in {"run_namespaced", "run_reordered"}
    /\ Len(ran.outs) < Len(Targets(ran.seed))
    /\ LET t == Targets(ran.seed)[Len(ran.outs) + 1]
       IN  ran' = [ran EXCEPT !.outs = Append(@, run(t[1].val, t[2]))]
    /\ UNCHANGED <<nodes, next_id, pipeline, pc, split, first, second, ns1,
                   ns2, sum>>
    /\ UNCHANGED run_vars
    /\ UNCHANGED store_vars

CompositionNext ==
    \/ NewShapedNode \/ CloneNode \/ BuildFirst \/ BuildRest \/ BuildReordered
    \/ AddSecond \/ Namespace \/ NamespaceAgain \/ NamespaceSecond
    \/ AddNamespaced \/ RunFirst \/ RunNext

CompositionSpec == Init /\ [][CompositionNext]_vars

(***************************************************************************)
(* The user of a container: it makes insert, upsert and get calls on a     *)
(* container; the container is then remapped for a node with Map inputs,   *)
(* as run does with its running state; or a port is mapped with a          *)
(* function.                                                               *)
(***************************************************************************)
\* the keys the calls are made with
StoreKeys == {NameA, NameB}

\* the types of the values and the values stored
PayloadTypes == {"i64", "str"}
Payloads == {[type |-> "i64", v |-> 1], [type |-> "str", v |-> 2]}

\* the argument a call does not have
NoPayload == [type |-> "", v |-> 0]

\* store.insert(key, value)
Insert ==
    /\ at = "store"
    /\ Len(log) < MaxOps
    /\ \E key \in StoreKeys, value \in Payloads :
          LET r == ContainerInsert(store, key, value)
          IN  /\ store' = r.data
              /\ log' = Append(log, [op |-> "insert", key |-> key,
                                     value |-> value, requested |-> "",
                                     ret |-> r.ret])
    /\ UNCHANGED <<nodes, next_id, pipeline, pc, at, port, view>>
    /\ UNCHANGED run_vars
    /\ UNCHANGED comp_vars

\* store.upsert(key, value)
Upsert ==
    /\ at = "store"
    /\ Len(log) < MaxOps
    /\ \E key \in StoreKeys, value \in Payloads :
          /\ store' = ContainerUpsert(store, key, value)
          /\ log' = Append(log, [op |-> "upsert", key |-> key,
                                 value |-> value, requested |-> "",
                                 ret |-> Ok(<<>>)])
    /\ UNCHANGED <<nodes, next_id, pipeline, pc, at, port, view>>
    /\ UNCHANGED run_vars
    /\ UNCHANGED comp_vars

\* store.get::<requested>(key)
Get ==
    /\ at = "store"
    /\ Len(log) < MaxOps
    /\ \E key \in StoreKeys, requested \in PayloadTypes :
          log' = Append(log, [op |-> "get", key |-> key,
                              value |-> NoPayload, requested |-> requested,
                              ret |-> ContainerGet(store, key, requested)])
    /\ UNCHANGED <<nodes, next_id, pipeline, pc, at, store, port, view>>
    /\ UNCHANGED run_vars
    /\ UNCHANGED comp_vars

\* the Map input ports the container is remapped for: one entry, two
\* entries, and two entries where the local name a of one is the external
\* name of the other, each in both iteration orders of the HashMap
RemapPorts ==
    { Map(<<<<NameP, NameA>>>>),
      Map(<<<<NameP, NameA>>, <<NameQ, NameB>>>>),
      Map(<<<<NameQ, NameB>>, <<NameP, NameA>>>>),
      Map(<<<<NameP, NameA>>, <<NameA, NameB>>>>),
      Map(<<<<NameA, NameB>>, <<NameP, NameA>>>>) }

\* the remap of run for a node with Map inputs, with the container as the
\* running state
RemapInputs ==
    /\ at = "store"
    /\ \E inputs \in RemapPorts :
          LET n == NodeNew(next_id, inputs, List(<<>>))
          IN  view' = [n |-> n, state |-> store,
                       ret |-> ContainerInput(store, n)]
    /\ at' = "remapped"
    /\ UNCHANGED <<nodes, next_id, pipeline, pc, store, log, port>>
    /\ UNCHANGED run_vars
    /\ UNCHANGED comp_vars

\* the ports NodeSources::map is called on: Lists, one with a name twice,
\* and Maps, one in both iteration orders and one with an external name
\* under two local names
MapPorts ==
    { List(<<>>), List(<<NameA, NameB>>), List(<<NameB, NameB>>),
      Map(<<<<NameP, NameA>>, <<NameQ, NameB>>>>),
      Map(<<<<NameQ, NameB>>, <<NameP, NameA>>>>),
      Map(<<<<NameP, NameA>>, <<NameQ, NameA>>>>) }

\* the functions NodeSources::map is called with, on the names a and b: the
\* prefixing of with_namespace, the exchange of a and b, and a function
\* that is not injective
MapFunctions ==
    { mapping(NameC, {NameA, NameB}),
      (NameA :> NameB) @@ (NameB :> NameA),
      (NameA :> NameB) @@ (NameB :> NameB) }

\* port.map(f), by a user that made no call on the container
MapPort ==
    /\ at = "store"
    /\ log = <<>>
    /\ \E s \in MapPorts, f \in MapFunctions :
          \E r \in SourcesMap(s, f) :
              port' = [s |-> s, f |-> f, r |-> r]
    /\ at' = "mapped"
    /\ UNCHANGED <<nodes, next_id, pipeline, pc, store, log, view>>
    /\ UNCHANGED run_vars
    /\ UNCHANGED comp_vars

StoreNext == Insert \/ Upsert \/ Get \/ RemapInputs \/ MapPort

StoreSpec == Init /\ [][StoreNext]_vars

(***************************************************************************)
(* Vocabulary of the properties.                                           *)
(***************************************************************************)
ExtInputs(n) == Range(SourcesInputs(n.inputs))
ExtOutputs(n) == Range(SourcesOutputs(n.outputs))
LocalOutputs(n) == Range(SourcesLocals(n.outputs))

\* the nodes of the built pipeline in execution order
Ordered == pipeline.val.nodes

\* the node whose function was called last, and the calls made so far
LastInvoked == Ordered[invoked[Len(invoked)]]

\* the name under which producer p returns its external output name
LocalNameOf(p, name) ==
    (CHOOSE e \in Range(OutputEntries(p.outputs)) : e[2] = name)[1]

\* the seed container as it was handed to run
SeedContainer == [k \in seed |-> <<0, k>>]

\* the functions called so far were called for the nodes 1..pos, in order
InvokedUpToPos == invoked = [i \in 1..pos |-> i]

\* every function called so far returned all its declared outputs: a call
\* that does not ends the run, so only the last call can fall short
ReturnedDeclared ==
    \/ invoked = <<>>
    \/ res.tag = "Ok" /\ LocalOutputs(LastInvoked) \subseteq DOMAIN res.val

\* the output names the slice declares more than once, in two nodes or
\* twice in one port
DuplicatedOutputs(ns) ==
    LET occ == UNION {{<<i, j>> : j \in 1..Len(SourcesOutputs(ns[i].outputs))} :
                        i \in 1..Len(ns)}
        nameAt(o) == SourcesOutputs(ns[o[1]].outputs)[o[2]]
    IN  {nameAt(o) : o \in {x \in occ :
                              \E y \in occ : y # x /\ nameAt(y) = nameAt(x)}}

\* node i of the slice produces a name that node j of the slice consumes
Wired(ns, i, j) == ExtOutputs(ns[i]) \cap ExtInputs(ns[j]) # {}

RECURSIVE WiredClosure(_, _, _)
WiredClosure(ns, S, k) ==
    IF k = 0 THEN S
    ELSE WiredClosure(ns,
            S \cup {j \in 1..Len(ns) : \E i \in S : Wired(ns, i, j)}, k - 1)

\* the producer-to-consumer wiring of the slice has a cycle
WiringCycle(ns) ==
    \E i \in 1..Len(ns) :
        i \in WiredClosure(ns, {j \in 1..Len(ns) : Wired(ns, i, j)}, Len(ns))

\* s is a rearrangement of t
IsPermutation(s, t) ==
    /\ Len(s) = Len(t)
    /\ \A x \in Range(s) \cup Range(t) :
          Cardinality({i \in 1..Len(s) : s[i] = x})
            = Cardinality({i \in 1..Len(t) : t[i] = x})

(***************************************************************************)
(* C1.  When from_nodes succeeds, the stored execution order is a          *)
(* rearrangement of the slice, and whenever the function of a node C has   *)
(* been called in a run, the function of every node P that declares an     *)
(* external output C declares as external input was called before it.      *)
(***************************************************************************)
C1_ProducersRunFirst ==
    pipeline.tag = "Ok" =>
        /\ IsPermutation(Ordered, nodes)
        /\ \A k \in 1..Len(invoked) : \A i \in 1..Len(Ordered) :
              Wired(Ordered, i, invoked[k])
                  => \E h \in 1..(k - 1) : invoked[h] = i

(***************************************************************************)
(* C2.  When the function of a node C with List inputs is called, the      *)
(* container it gets holds, under every input name of C that a node P of   *)
(* the pipeline declares as external output, the payload P's function      *)
(* returned in this run under its local name for it.                       *)
(***************************************************************************)
C2_ConsumerSeesProduced ==
    (invoked # <<>> /\ LastInvoked.inputs.kind = "List") =>
        \A name \in ExtInputs(LastInvoked) : \A i \in 1..Len(Ordered) :
            name \in ExtOutputs(Ordered[i]) =>
                /\ name \in DOMAIN ctx.val
                /\ ctx.val[name]
                     = <<Ordered[i].id, LocalNameOf(Ordered[i], name)>>

(***************************************************************************)
(* C3.  A run against a seed that holds every name of inputs(), in which   *)
(* every function returns all its declared outputs, succeeds, and its      *)
(* result holds every key of the seed and every name of all_outputs().     *)
(***************************************************************************)
C3_RunSucceeds ==
    (/\ pc = "done"
     /\ Range(PipelineInputs(pipeline.val)) \subseteq seed
     /\ ReturnedDeclared)
    => /\ result.tag = "Ok"
       /\ seed \cup Range(PipelineAllOutputs(pipeline.val))
              \subseteq DOMAIN result.val

\* a run of two nodes or more, one with mapped inputs, with free inputs,
\* has succeeded
C3_Witness ==
    /\ pc = "done"
    /\ result.tag = "Ok"
    /\ Len(invoked) >= 2
    /\ PipelineInputs(pipeline.val) # <<>>
    /\ \E i \in 1..Len(Ordered) : Ordered[i].inputs.kind = "Map"

(***************************************************************************)
(* C4.  The result of a successful run holds, under every seed key that    *)
(* is not in all_outputs(), the payload of the seed.                       *)
(***************************************************************************)
C4_SeedKeysKept ==
    (pc = "done" /\ result.tag = "Ok") =>
        \A k \in seed \ Range(PipelineAllOutputs(pipeline.val)) :
            k \in DOMAIN result.val /\ result.val[k] = <<0, k>>

\* a successful run in which a function returned a payload under a seed
\* key that is no output of the pipeline and is the local name of a Map port
C4_Witness ==
    /\ pc = "done"
    /\ result.tag = "Ok"
    /\ \E k \in seed \ Range(PipelineAllOutputs(pipeline.val)) :
          /\ k \in DOMAIN res.val
          /\ \E i \in 1..Len(Ordered) :
                \/ Ordered[i].outputs.kind = "Map"
                     /\ k \in LocalOutputs(Ordered[i])
                \/ Ordered[i].inputs.kind = "Map"
                     /\ k \in Range(SourcesLocals(Ordered[i].inputs))

(***************************************************************************)
(* C5.  from_nodes fails with DuplicateData of a duplicated name whenever  *)
(* an external output name is declared twice in the slice, by two nodes or *)
(* twice by one port; in a built pipeline every external output name has   *)
(* exactly one producing node.                                             *)
(***************************************************************************)
C5_DuplicateOutputRejected ==
    pc = "pipeline" =>
        /\ DuplicatedOutputs(nodes) # {} =>
              /\ pipeline.tag = "Err"
              /\ pipeline.err.variant = "DuplicateData"
              /\ pipeline.err.name \in DuplicatedOutputs(nodes)
        /\ pipeline.tag = "Ok" =>
              \A i \in 1..Len(Ordered) : \A name \in ExtOutputs(Ordered[i]) :
                  {j \in 1..Len(Ordered) : name \in ExtOutputs(Ordered[j])}
                      = {i}

\* from_nodes has rejected a slice in which one port declares a name twice
\* and two different nodes declare the same name
C5_Witness ==
    /\ pc = "pipeline"
    /\ pipeline.tag = "Err"
    /\ pipeline.err.variant = "DuplicateData"
    /\ \E i \in 1..Len(nodes) :
          /\ nodes[i].outputs.kind = "List"
          /\ Len(nodes[i].outputs.l) = 2
          /\ nodes[i].outputs.l[1] = nodes[i].outputs.l[2]
    /\ \E i, j \in 1..Len(nodes) :
          /\ nodes[i].id # nodes[j].id
          /\ ExtOutputs(nodes[i]) \cap ExtOutputs(nodes[j]) # {}

(***************************************************************************)
(* C6.  For a slice without duplicated external output, from_nodes fails   *)
(* with InvalidPipeline exactly when the producer-to-consumer wiring has a *)
(* cycle (a node that consumes its own output is one), and succeeds        *)
(* otherwise.                                                              *)
(***************************************************************************)
C6_CycleRejected ==
    (pc = "pipeline" /\ DuplicatedOutputs(nodes) = {}) =>
        IF WiringCycle(nodes)
        THEN pipeline.tag = "Err" /\ pipeline.err = InvalidPipeline
        ELSE pipeline.tag = "Ok"

\* from_nodes has rejected a slice for a node that consumes its own output
C6_Witness ==
    /\ pc = "pipeline"
    /\ pipeline.tag = "Err"
    /\ pipeline.err = InvalidPipeline
    /\ \E i \in 1..Len(nodes) : Wired(nodes, i, i)
    /\ ~ \E i, j \in 1..Len(nodes) : i # j /\ Wired(nodes, i, j)

(***************************************************************************)
(* C7.  From the call of run on, whatever it returns, the seed container   *)
(* holds exactly the keys and payloads it held at the call.                *)
(***************************************************************************)
C7_SeedNotMutated ==
    pc \in {"run", "done"} => heap.container = SeedContainer

\* run has failed after a node overwrote a seed key in the running state
C7_Witness ==
    /\ pc = "done"
    /\ result.tag = "Err"
    /\ \E k \in seed : heap.state[k] # <<0, k>>

(***************************************************************************)
(* C8.  When a node function returns an error, run returns that error and  *)
(* no container, and no function of a later node is called.                *)
(***************************************************************************)
C8_FunctionErrorReturned ==
    res.tag = "Err" =>
        /\ pc = "done"
        /\ result = Err(res.err)
        /\ InvokedUpToPos

\* a function failed after an earlier node wrote to the running state, with
\* a node left to run
C8_Witness ==
    /\ res.tag = "Err"
    /\ pos >= 2
    /\ pos < Len(Ordered)
    /\ heap.state # heap.container

(***************************************************************************)
(* C9.  When a node function returns a container that lacks a declared     *)
(* output (looked up under the name itself for a List port, under the      *)
(* local name for a Map port), run fails with DataNotFound of a missing    *)
(* declared name, and no function of a later node is called.               *)
(***************************************************************************)
C9_MissingOutputFails ==
    (/\ invoked # <<>>
     /\ res.tag = "Ok"
     /\ ~ (LocalOutputs(LastInvoked) \subseteq DOMAIN res.val))
    => /\ pc = "done"
       /\ result.tag = "Err"
       /\ result.err.variant = "DataNotFound"
       /\ result.err.name \in LocalOutputs(LastInvoked) \ DOMAIN res.val
       /\ InvokedUpToPos

\* a function with two mapped outputs returned only one of them, with a
\* node left to run
C9_Witness ==
    /\ invoked # <<>>
    /\ res.tag = "Ok"
    /\ LastInvoked.outputs.kind = "Map"
    /\ LocalOutputs(LastInvoked) \cap DOMAIN res.val # {}
    /\ LocalOutputs(LastInvoked) \ DOMAIN res.val # {}
    /\ pos < Len(Ordered)
    /\ pc = "done"

(***************************************************************************)
(* C10.  The keys of the result of a successful run are exactly the keys   *)
(* of the seed and the names of all_outputs().                             *)
(***************************************************************************)
C10_ResultKeysExact ==
    (pc = "done" /\ result.tag = "Ok") =>
        DOMAIN result.val
            = seed \cup Range(PipelineAllOutputs(pipeline.val))

\* a successful run in which the last function returned a key that is not
\* in the result, with a Map port whose local name is not in the result
C10_Witness ==
    /\ pc = "done"
    /\ result.tag = "Ok"
    /\ invoked # <<>>
    /\ DOMAIN res.val \ DOMAIN result.val # {}
    /\ \E i \in 1..Len(Ordered) :
          /\ Ordered[i].outputs.kind = "Map"
          /\ LocalOutputs(Ordered[i]) \ DOMAIN result.val # {}

(***************************************************************************)
(* Vocabulary of the properties of compositions.                           *)
(***************************************************************************)
\* the pipelines obtained so far through from_nodes, add and with_namespace
Obtained ==
    {r.val : r \in {x \in {first, second.val, ns1.val, ns2.val, sum} :
                       x.tag = "Ok"}}

\* the external input / output names declared by some node of pipeline q
DeclaredInputs(q) == UNION {ExtInputs(q.nodes[i]) : i \in 1..Len(q.nodes)}
DeclaredOutputs(q) == UNION {ExtOutputs(q.nodes[i]) : i \in 1..Len(q.nodes)}

\* r is sorted by the order of Source and holds no name twice
StrictlyIncreasing(r) ==
    \A i \in 1..(Len(r) - 1) : SourceLe(r[i], r[i + 1]) /\ r[i] # r[i + 1]

\* no two nodes of the slice ns have the same id
DistinctIds(ns) ==
    \A i, j \in 1..Len(ns) : ns[i].id = ns[j].id => i = j

(***************************************************************************)
(* C11.  For every pipeline obtained through from_nodes, add or            *)
(* with_namespace, the names of inputs() are the external input names      *)
(* declared by some node that are not in all_outputs().                    *)
(***************************************************************************)
C11_InputsAreFree ==
    \A q \in Obtained :
        Range(PipelineInputs(q))
            = DeclaredInputs(q) \ Range(PipelineAllOutputs(q))

(***************************************************************************)
(* C12.  For every pipeline obtained through from_nodes, add or            *)
(* with_namespace, the names of outputs() are the external output names    *)
(* that no node of the pipeline declares as external input, and they are   *)
(* among the names of all_outputs().                                       *)
(***************************************************************************)
C12_OutputsAreTerminal ==
    \A q \in Obtained :
        /\ Range(PipelineOutputs(q)) = DeclaredOutputs(q) \ DeclaredInputs(q)
        /\ Range(PipelineOutputs(q)) \subseteq Range(PipelineAllOutputs(q))

\* add has returned a pipeline of namespaced nodes with an output that is
\* consumed and one that is not
C12_Witness ==
    /\ pc = "added"
    /\ sum.tag = "Ok"
    /\ PipelineOutputs(sum.val) # <<>>
    /\ Range(PipelineOutputs(sum.val)) # Range(PipelineAllOutputs(sum.val))
    /\ \E i \in 1..Len(sum.val.nodes) : sum.val.nodes[i].namespace # <<>>

(***************************************************************************)
(* C13.  For every pipeline built, each of inputs(), outputs() and         *)
(* all_outputs() is strictly increasing in the order of the names, so      *)
(* holds no name twice.                                                    *)
(***************************************************************************)
C13_QueriesStrictlySorted ==
    \A q \in Obtained :
        /\ StrictlyIncreasing(PipelineInputs(q))
        /\ StrictlyIncreasing(PipelineOutputs(q))
        /\ StrictlyIncreasing(PipelineAllOutputs(q))

\* the pipelines add was called with (self and other)
AddSelf == IF second.how = "with_namespace" THEN ns1.val.val ELSE first.val
AddOther == second.val.val

(***************************************************************************)
(* C14.  When P1.add(P2) succeeds for pipelines that share no node and     *)
(* hold no node twice, the names of inputs() of the sum are those of       *)
(* P1.inputs() and P2.inputs() that are in neither all_outputs(), and the  *)
(* names of all_outputs() of the sum are those of both; a free input of P2 *)
(* that P1 produces is neither in inputs() nor in outputs() of the sum.    *)
(***************************************************************************)
C14_AddSurface ==
    (/\ pc = "added"
     /\ sum.tag = "Ok"
     /\ DistinctIds(AddSelf.nodes \o AddOther.nodes))
    => LET all == Range(PipelineAllOutputs(AddSelf))
                    \cup Range(PipelineAllOutputs(AddOther))
       IN  /\ Range(PipelineInputs(sum.val))
                = (Range(PipelineInputs(AddSelf))
                     \cup Range(PipelineInputs(AddOther))) \ all
           /\ Range(PipelineAllOutputs(sum.val)) = all
           /\ \A x \in Range(PipelineInputs(AddOther))
                         \cap Range(PipelineAllOutputs(AddSelf)) :
                 /\ x \notin Range(PipelineInputs(sum.val))
                 /\ x \notin Range(PipelineOutputs(sum.val))

\* add has succeeded on two pipelines of different nodes, the first of
\* which produces a free input of the second and a terminal output
C14_Witness ==
    /\ pc = "added"
    /\ sum.tag = "Ok"
    /\ DistinctIds(AddSelf.nodes \o AddOther.nodes)
    /\ Range(PipelineInputs(AddOther))
          \cap Range(PipelineAllOutputs(AddSelf)) # {}
    /\ PipelineInputs(AddSelf) # <<>>
    /\ Range(PipelineOutputs(AddSelf)) \cap Range(PipelineOutputs(sum.val))
          # {}

\* the calls of with_namespace made so far: <<self, namespace, returned>>
NamespaceCalls ==
    (IF ns1.val.tag # "None"
     THEN {<<first.val, ns1.pfx, ns1.val>>} ELSE {})
    \cup (IF ns2.val.tag # "None"
          THEN {<<ns1.val.val, ns2.pfx, ns2.val>>} ELSE {})
    \cup (IF second.how = "with_namespace"
          THEN {<<first.val, second.pfx, second.val>>} ELSE {})

\* the names of the list r, each as "pfx.name"
PrefixedNames(pfx, r) == {Format(pfx, r[i]) : i \in 1..Len(r)}

(***************************************************************************)
(* C15.  with_namespace(p, pfx) succeeds, and the names of inputs(),       *)
(* outputs() and all_outputs() of its result are the names of              *)
(* p.inputs(), p.outputs() and p.all_outputs(), each as "pfx.name".        *)
(***************************************************************************)
C15_NamespacedSurface ==
    \A c \in NamespaceCalls :
        /\ c[3].tag = "Ok"
        /\ Range(PipelineInputs(c[3].val))
              = PrefixedNames(c[2], PipelineInputs(c[1]))
        /\ Range(PipelineOutputs(c[3].val))
              = PrefixedNames(c[2], PipelineOutputs(c[1]))
        /\ Range(PipelineAllOutputs(c[3].val))
              = PrefixedNames(c[2], PipelineAllOutputs(c[1]))

\* what the run of the first pipeline, of its namespaced copy against the
\* prefixed seed, and of the copy against the seed itself returned
RunOfFirst == ran.outs[1]
RunOfNamespaced == ran.outs[2]
RunOfNamespacedPlain == ran.outs[3]

\* the functions of pipeline q with the node-local names of their ports
LocalSurface(q) ==
    {<<q.nodes[i].func, Range(SourcesLocals(q.nodes[i].inputs)),
       Range(SourcesLocals(q.nodes[i].outputs))>> : i \in 1..Len(q.nodes)}

(***************************************************************************)
(* C16.  For a seed S and the seed S' that holds S[k] under "pfx.k" for    *)
(* every key k of S, with_namespace(p, pfx).run(S') succeeds exactly when  *)
(* p.run(S) succeeds, and then holds under "pfx.k" what p.run(S) holds     *)
(* under k for every k of p.all_outputs(); the namespaced nodes have the   *)
(* functions and the node-local names of the nodes of p.  The functions    *)
(* read their declared node-local inputs only.                             *)
(***************************************************************************)
C16_NamespacedRun ==
    (pc = "run_namespaced" /\ Len(ran.outs) >= 2) =>
        /\ (RunOfNamespaced.tag = "Ok") <=> (RunOfFirst.tag = "Ok")
        /\ RunOfFirst.tag = "Ok" =>
              \A k \in Range(PipelineAllOutputs(first.val)) :
                  /\ Format(ns1.pfx, k) \in DOMAIN RunOfNamespaced.val
                  /\ RunOfNamespaced.val[Format(ns1.pfx, k)]
                        = RunOfFirst.val[k]
        /\ LocalSurface(ns1.val.val) = LocalSurface(first.val)

\* the whole runs made so far: <<pipeline, container, returned>>
RunsMade ==
    {<<Targets(ran.seed)[i][1].val, Targets(ran.seed)[i][2], ran.outs[i]>> :
        i \in 1..Len(ran.outs)}

\* q is the chain A(inputs [a, b], outputs [sum]), B(inputs [sum],
\* outputs [sq])
IsChain(q) ==
    /\ Len(q.nodes) = 2
    /\ q.nodes[1].inputs = List(<<NameA, NameB>>)
    /\ q.nodes[1].outputs = List(<<NameSum>>)
    /\ q.nodes[2].inputs = List(<<NameSum>>)
    /\ q.nodes[2].outputs = List(<<NameSq>>)

(***************************************************************************)
(* C17.  A run of a pipeline whose first node has mapped inputs, against a *)
(* seed that lacks a mapped external name, fails with DataNotFound of a    *)
(* mapped external name the seed lacks; the run of the chain A, B under    *)
(* with_namespace("c") against the seed {a, b} fails with                  *)
(* DataNotFound("c.a").                                                    *)
(***************************************************************************)
C17_MissingMappedInput ==
    /\ \A r \in RunsMade :
          (/\ r[1].nodes # <<>>
           /\ r[1].nodes[1].inputs.kind = "Map"
           /\ ExtInputs(r[1].nodes[1]) \ DOMAIN r[2] # {})
          => /\ r[3].tag = "Err"
             /\ r[3].err.variant = "DataNotFound"
             /\ r[3].err.name \in ExtInputs(r[1].nodes[1]) \ DOMAIN r[2]
    /\ (/\ pc = "run_namespaced"
        /\ Len(ran.outs) = 3
        /\ IsChain(first.val)
        /\ ns1.pfx = NameC
        /\ ran.seed = {NameA, NameB})
       => RunOfNamespacedPlain = Err(DataNotFound(Format(NameC, NameA)))

\* x is a prefix of y
IsPrefix(x, y) == Len(x) <= Len(y) /\ SubSeq(y, 1, Len(x)) = x

\* "x." is a prefix of "y." or "y." is a prefix of "x."
Overlapping(x, y) ==
    \/ IsPrefix(Append(x, Dot), Append(y, Dot))
    \/ IsPrefix(Append(y, Dot), Append(x, Dot))

(***************************************************************************)
(* C18 as claimed.  For every two different prefixes p and q,              *)
(* P.with_namespace(p).add(P.with_namespace(q)) succeeds.                  *)
(***************************************************************************)
C18_DifferentPrefixes ==
    (/\ pc = "added"
     /\ second.how = "with_namespace"
     /\ ns1.pfx # second.pfx)
    => sum.tag = "Ok"

(***************************************************************************)
(* C18.  For every two prefixes p and q such that neither "p." is a prefix *)
(* of "q." nor "q." of "p.", P.with_namespace(p).add(P.with_namespace(q))  *)
(* succeeds: add fails on two namespaced copies of one pipeline only when  *)
(* one prefix with its dot begins the other with its dot.                  *)
(***************************************************************************)
C18_DisjointPrefixes ==
    (/\ pc = "added"
     /\ second.how = "with_namespace")
    => (sum.tag = "Err" => Overlapping(ns1.pfx, second.pfx))

\* two copies of a pipeline that wires a producer to a consumer and has a
\* dotted output name were added under the prefixes "c.c" and "d"
C18_Witness ==
    /\ pc = "added"
    /\ second.how = "with_namespace"
    /\ {ns1.pfx, second.pfx} = {Format(NameC, NameC), NameD}
    /\ sum.tag = "Ok"
    /\ first.val.graph.edges # <<>>
    /\ NameCSum \in Range(PipelineAllOutputs(first.val))

\* the nodes of pipeline q without their ids: the function, the entries
\* (node-local name, external name) of both ports and the namespace
NodeSurface(q) ==
    {<<q.nodes[i].func, Range(OutputEntries(q.nodes[i].inputs)),
       Range(OutputEntries(q.nodes[i].outputs)), q.nodes[i].namespace>> :
        i \in 1..Len(q.nodes)}

\* what first.with_namespace("q.p") may return, for the prefix p of ns1 and
\* the prefix q of ns2
DirectlyNamespaced ==
    with_namespace(first.val, Format(ns2.pfx, ns1.pfx), next_id)

(***************************************************************************)
(* C19.  P.with_namespace(p).with_namespace(q) has the inputs(),           *)
(* outputs() and all_outputs() of P.with_namespace("q.p"), and node by     *)
(* node the same function, the same node-local names with the same         *)
(* external names and the same namespace "q.p"; the nodes of               *)
(* P.with_namespace(p), which had no namespace in P, have the namespace p. *)
(***************************************************************************)
C19_NamespacingComposes ==
    pc = "renamespaced" =>
        /\ ns2.val.tag = "Ok"
        /\ \A i \in 1..Len(ns1.val.val.nodes) :
              ns1.val.val.nodes[i].namespace = <<ns1.pfx>>
        /\ \A i \in 1..Len(ns2.val.val.nodes) :
              ns2.val.val.nodes[i].namespace
                  = <<Format(ns2.pfx, ns1.pfx)>>
        /\ \A d \in DirectlyNamespaced :
              /\ d.tag = "Ok"
              /\ PipelineInputs(ns2.val.val) = PipelineInputs(d.val)
              /\ PipelineOutputs(ns2.val.val) = PipelineOutputs(d.val)
              /\ PipelineAllOutputs(ns2.val.val) = PipelineAllOutputs(d.val)
              /\ NodeSurface(ns2.val.val) = NodeSurface(d.val)

\* a pipeline with a wire, with List and Map ports, was namespaced with
\* "d" and then with "c.c"
C19_Witness ==
    /\ pc = "renamespaced"
    /\ ns1.pfx = NameD
    /\ ns2.pfx = Format(NameC, NameC)
    /\ ns2.val.tag = "Ok"
    /\ first.val.graph.edges # <<>>
    /\ \E i \in 1..Len(first.val.nodes) :
          first.val.nodes[i].inputs.kind = "Map"
    /\ PipelineInputs(ns2.val.val) # <<>>

\* the slice the first pipeline was built from
Front == SubSeq(nodes, 1, split)

(***************************************************************************)
(* C20.  For a slice of different nodes and a rearrangement of it,         *)
(* from_nodes fails on both or succeeds on both, and then the runs of the  *)
(* two pipelines against the same seed both fail or both succeed with the  *)
(* same result.  The functions are deterministic and read their declared   *)
(* inputs only.                                                            *)
(***************************************************************************)
C20_OrderOfSliceIrrelevant ==
    (second.how = "reordered" /\ DistinctIds(Front)) =>
        /\ second.val.tag = first.tag
        /\ (pc = "run_reordered" /\ Len(ran.outs) = 2) =>
              /\ ran.outs[2].tag = ran.outs[1].tag
              /\ ran.outs[1].tag = "Ok" => ran.outs[2].val = ran.outs[1].val

\* two pipelines built from three different nodes that are executed in
\* different orders were run with success against the same seed
C20_Witness ==
    /\ pc = "run_reordered"
    /\ Len(ran.outs) = 2
    /\ DistinctIds(Front)
    /\ Len(Front) >= 3
    /\ first.val.nodes # second.val.val.nodes
    /\ first.val.graph.edges # <<>>
    /\ ran.outs[1].tag = "Ok"

\* the port s with the entries of its Map in any of the orders the HashMap
\* may be traversed in
Retraversed(s) ==
    IF s.kind = "List" THEN {s} ELSE {Map(o) : o \in Orderings(Range(s.m))}

\* the slices of the nodes of ns, each with its Map ports traversed in any
\* order
RECURSIVE Retraversals(_)
Retraversals(ns) ==
    IF ns = <<>> THEN {<<>>}
    ELSE { <<[Head(ns) EXCEPT !.inputs = i, !.outputs = o]>> \o t :
             i \in Retraversed(Head(ns).inputs),
             o \in Retraversed(Head(ns).outputs),
             t \in Retraversals(Tail(ns)) }

(***************************************************************************)
(* C21.  A whole run returns what the run of every pipeline built by       *)
(* from_nodes from the same nodes returns against the same seed, in        *)
(* whichever order the entries of the Map ports are traversed: the same    *)
(* result store or the same error.  The functions are deterministic.       *)
(***************************************************************************)
C21_RunDeterministic ==
    \A r \in RunsMade :
        \A ns \in Retraversals(r[1].nodes) :
            /\ from_nodes(ns).tag = "Ok"
            /\ run(from_nodes(ns).val, r[2]) = r[3]

\* the reference map after the calls of l: insert adds an absent key and
\* leaves a present one, upsert sets the key
RECURSIVE Reference(_)
Reference(l) ==
    IF l = <<>> THEN <<>>
    ELSE LET before == Reference(SubSeq(l, 1, Len(l) - 1))
             c == l[Len(l)]
         IN  IF \/ c.op = "upsert"
                \/ c.op = "insert" /\ c.key \notin DOMAIN before
             THEN [k \in DOMAIN before \cup {c.key} |->
                      IF k = c.key THEN c.value ELSE before[k]]
             ELSE before

\* the reference map before the i-th call
ReferenceBefore(i) == Reference(SubSeq(log, 1, i - 1))

\* the store is the reference map, and insert and upsert returned what the
\* reference map says; get returned DataNotFound for an absent key
StoreFollowsReference ==
    /\ store = Reference(log)
    /\ \A i \in 1..Len(log) :
          LET c == log[i]
              before == ReferenceBefore(i)
          IN  /\ (c.op = "insert" /\ c.key \notin DOMAIN before)
                    => c.ret.tag = "Ok"
              /\ (c.op = "insert" /\ c.key \in DOMAIN before)
                    => c.ret = Err(DuplicateData(c.key))
              /\ c.op = "upsert" => c.ret.tag = "Ok"
              /\ (c.op = "get" /\ c.key \notin DOMAIN before)
                    => c.ret = Err(DataNotFound(c.key))

(***************************************************************************)
(* C22 as claimed.  After any sequence of insert and upsert calls the      *)
(* store is the reference map (insert adds an absent key, fails with       *)
(* DuplicateData on a present one and leaves it; upsert sets the key), and *)
(* get of a present key returns the value of the reference map, get of an  *)
(* absent key DataNotFound.                                                *)
(***************************************************************************)
C22_StoreIsReferenceMap ==
    /\ StoreFollowsReference
    /\ \A i \in 1..Len(log) :
          (log[i].op = "get" /\ log[i].key \in DOMAIN ReferenceBefore(i))
             => /\ log[i].ret.tag = "Ok"
                /\ log[i].ret.val = ReferenceBefore(i)[log[i].key]

(***************************************************************************)
(* C22.  As above, but get of a present key returns the value of the       *)
(* reference map when it asks for the type the value was stored with, as   *)
(* it always does on the container of one type, and DataTypeMismatch when  *)
(* it asks for another type.                                               *)
(***************************************************************************)
C22_StoreIsReferenceMapTyped ==
    /\ StoreFollowsReference
    /\ \A i \in 1..Len(log) :
          (log[i].op = "get" /\ log[i].key \in DOMAIN ReferenceBefore(i))
             => LET value == ReferenceBefore(i)[log[i].key]
                IN  /\ log[i].requested = value.type
                         => /\ log[i].ret.tag = "Ok"
                            /\ log[i].ret.val = value
                    /\ log[i].requested # value.type
                         => log[i].ret = Err(DataTypeMismatch(log[i].key))

\* an upsert set a key, an insert of another value under it failed, and a
\* get that asked for the type stored returned the value of the upsert
C22_Witness ==
    /\ Len(log) = 3
    /\ log[1].op = "upsert"
    /\ log[2].op = "insert" /\ log[2].key = log[1].key
    /\ log[2].value # log[1].value
    /\ log[2].ret.tag = "Err"
    /\ log[3].op = "get" /\ log[3].key = log[1].key
    /\ log[3].ret.tag = "Ok"
    /\ log[3].ret.val = log[1].value

(***************************************************************************)
(* C23.  The container a node with Map inputs gets holds, under the local  *)
(* name of every entry of the mapping, what the running state holds under  *)
(* the external name of the entry, also when the local name of an entry is *)
(* the external name of another; the running state is left as it was.      *)
(***************************************************************************)
C23_ViewIsRemappedState ==
    (at = "remapped" /\ view.ret.tag = "Ok") =>
        /\ \A e \in Range(view.n.inputs.m) :
              /\ e[1] \in DOMAIN view.ret.val
              /\ e[2] \in DOMAIN view.state
              /\ view.ret.val[e[1]] = view.state[e[2]]
        /\ store = view.state

\* f maps no two names of its domain to the same name
Injective(f) == \A x, y \in DOMAIN f : f[x] = f[y] => x = y

(***************************************************************************)
(* C24.  NodeSources::map(f) returns a Map that has one entry for each     *)
(* local name of the port and no other: name -> f(name) for a List of      *)
(* names, local -> f(external) for a Map; for an injective f the external  *)
(* names inputs() and outputs() report of the result are the images under  *)
(* f of those of the port.                                                 *)
(***************************************************************************)
C24_MapKeepsLocals ==
    at = "mapped" =>
        LET s == port.s
            f == port.f
            r == port.r
        IN  /\ r.kind = "Map"
            /\ Range(SourcesLocals(r)) = Range(SourcesLocals(s))
            /\ Len(r.m) = Cardinality(Range(SourcesLocals(s)))
            /\ s.kind = "List" =>
                  \A e \in Range(r.m) : e[2] = f[e[1]]
            /\ s.kind = "Map" =>
                  \A e \in Range(r.m) :
                      \E d \in Range(s.m) : e[1] = d[1] /\ e[2] = f[d[2]]
            /\ Injective(f) =>
                  /\ Range(SourcesInputs(r))
                        = {f[x] : x \in Range(SourcesInputs(s))}
                  /\ Range(SourcesOutputs(r))
                        = {f[x] : x \in Range(SourcesOutputs(s))}

\* a List of two names was mapped with the prefixing of with_namespace
C24_Witness ==
    /\ at = "mapped"
    /\ port.s = List(<<NameA, NameB>>)
    /\ port.f = mapping(NameC, {NameA, NameB})
    /\ Range(port.r.m) = { <<NameA, Format(NameC, NameA)>>,
                           <<NameB, Format(NameC, NameB)>> }

(***************************************************************************)
(* C25.  No pipeline obtained holds two nodes with the same id: from_nodes *)
(* fails on a slice that holds a node twice, and P.add(P) fails for every  *)
(* pipeline P that is not empty.                                           *)
(***************************************************************************)
C25_NoNodeTwice ==
    /\ \A q \in Obtained : DistinctIds(q.nodes)
    /\ (first.tag # "None" /\ ~DistinctIds(Front)) => first.tag = "Err"
    /\ (/\ pc = "added"
        /\ second.how = "reordered"
        /\ second.val = first
        /\ first.val.nodes # <<>>)
       => sum.tag = "Err"

\* the running state of the run
RunningState == heap[container_run_state]

(***************************************************************************)
(* C26.  In every step of a run of a built pipeline the running state      *)
(* keeps its keys, and a key whose value changes held the value of the     *)
(* seed and is an external output of the node that ran: a value written by *)
(* a node is never overwritten, so every key is written at most once.      *)
(***************************************************************************)
C26_SingleAssignment ==
    [][pc = "run" =>
          \A k \in DOMAIN RunningState :
              /\ k \in DOMAIN RunningState'
              /\ RunningState'[k] # RunningState[k] =>
                    /\ k \in seed
                    /\ RunningState[k] = SeedContainer[k]
                    /\ k \in ExtOutputs(Ordered[pos])
                    /\ RunningState'[k][1] = Ordered[pos].id]_vars

\* a run has returned in which a node overwrote a value of the seed and
\* another node wrote a key the seed did not hold
C26_Witness ==
    /\ pc = "done"
    /\ result.tag = "Ok"
    /\ \E k \in seed : result.val[k] # SeedContainer[k]
    /\ \E k \in DOMAIN result.val : k \notin seed
    /\ Cardinality({result.val[k][1] : k \in DOMAIN result.val} \ {0}) >= 2

(***************************************************************************)
(* C27.  For a slice with both a duplicated external output name and a     *)
(* cyclic wiring, from_nodes returns DuplicateData, not InvalidPipeline;   *)
(* it returns InvalidPipeline only for a slice whose external output names *)
(* are all different.                                                      *)
(***************************************************************************)
C27_DuplicateBeforeCycle ==
    pc = "pipeline" =>
        /\ (DuplicatedOutputs(nodes) # {} /\ WiringCycle(nodes)) =>
              /\ pipeline.tag = "Err"
              /\ pipeline.err.variant = "DuplicateData"
        /\ (pipeline.tag = "Err" /\ pipeline.err = InvalidPipeline) =>
              DuplicatedOutputs(nodes) = {}

\* from_nodes has returned DuplicateData for a slice in which two nodes
\* declare the same output and a node consumes what it produces
C27_Witness ==
    /\ pc = "pipeline"
    /\ DuplicatedOutputs(nodes) # {}
    /\ WiringCycle(nodes)
    /\ pipeline.tag = "Err"
    /\ pipeline.err.variant = "DuplicateData"
    /\ \E i, j \in 1..Len(nodes) :
          /\ nodes[i].id # nodes[j].id
          /\ ExtOutputs(nodes[i]) \cap ExtOutputs(nodes[j]) # {}

=============================================================================
